---- MODULE Spec2Model ----
(***************************************************************************)
(* Model of crates/mysticeti-core/src/crypto.rs (block digests, block      *)
(* signing and verification, the Signer's key lifecycle, the fixed-size    *)
(* byte codec) and of the private configuration export in config.rs.       *)
(*                                                                         *)
(* Conventions                                                             *)
(*  - a byte string is a sequence of integers in 0..255;                   *)
(*  - the Blake2b hasher is modelled by the byte string fed to it so far   *)
(*    (every update appends) and finalize() by the identity: the hash is   *)
(*    taken to be collision free, so two digests are equal exactly when    *)
(*    the strings fed are equal;                                           *)
(*  - a secret key is a positive key number, 0 is the all-zero key that    *)
(*    SecretKeyLocal::default() builds; the public key of secret key k is  *)
(*    numbered k as well (they are kept apart by where they are stored);   *)
(*  - ML-DSA is modelled as an ideal signature scheme: the only            *)
(*    SIGNATURE_SIZE bytes that verify for a digest under a public key are *)
(*    the ones detached_sign gives for that digest and the matching secret *)
(*    key.                                                                 *)
(***************************************************************************)
EXTENDS Integers, Sequences, FiniteSets, TLC

\* crypto.rs:31 (mldsa44::signature_bytes(), 2420 by the message of line 279)
SIGNATURE_SIZE == 2420
\* crypto.rs:34
BLOCK_DIGEST_SIZE == 32

\* Number of key pairs mldsa44::keypair() can draw from.
MaxKeys == 2
Keys == 1..MaxKeys

\* The key numbers a configuration file can hold: the ones generated here and
\* one generated elsewhere.
FileKeys == 1..(MaxKeys + 1)

(***************************************************************************)
(* Bytes                                                                   *)
(***************************************************************************)
Pow256(e) == IF e = 0 THEN 1 ELSE IF e = 1 THEN 256 ELSE IF e = 2 THEN 65536 ELSE 16777216

\* uN::to_be_bytes for a value below 2^31 (every value of the model is).
to_be_bytes(v, n) ==
    [i \in 1..n |-> IF n - i > 3 THEN 0 ELSE (v \div Pow256(n - i)) % 256]

\* [b; n]
Fill(b, n) == [i \in 1..n |-> b]

\* hasher.update(bytes)
Update(state, bytes) == state \o bytes

(***************************************************************************)
(* CryptoHash (crypto.rs:177-197)                                          *)
(***************************************************************************)
CryptoHashU64(v, state) == Update(state, to_be_bytes(v, 8))

CryptoHashU128(v, state) == Update(state, to_be_bytes(v, 16))

\* impl<T: AsBytes> CryptoHash for T: the raw bytes, nothing before or after
CryptoHashBytes(bytes, state) == Update(state, bytes)

(***************************************************************************)
(* Block fields (crate::types, described in section 3 of the               *)
(* specification)                                                          *)
(***************************************************************************)
\* BlockReference: (AuthorityIndex, RoundNumber, BlockDigest)
CryptoHashReference(r, state) ==
    CryptoHashBytes(r.digest, CryptoHashU64(r.round, CryptoHashU64(r.authority, state)))

\* the range of a VoteRange: a block and two offsets
CryptoHashRange(g, state) ==
    CryptoHashU64(g.offset_end_exclusive,
        CryptoHashU64(g.offset_start_inclusive, CryptoHashReference(g.block, state)))

\* a transaction payload is a byte string of any length, fed as it is
CryptoHashTransaction(tx, state) == CryptoHashBytes(tx, state)

\* the epoch marker is a flag, fed as one byte
CryptoHashEpoch(e, state) == CryptoHashBytes(IF e THEN <<1>> ELSE <<0>>, state)

(***************************************************************************)
(* Statements                                                              *)
(***************************************************************************)
ZeroDigest == Fill(0, BLOCK_DIGEST_SIZE)

NoReference == [authority |-> 0, round |-> 0, digest |-> ZeroDigest]

NoRange == [block |-> NoReference, offset_start_inclusive |-> 0, offset_end_exclusive |-> 0]

\* BaseStatement::Share(tx)
Share(tx) ==
    [kind |-> "Share", tx |-> tx, id |-> NoReference, other |-> NoReference, range |-> NoRange]

\* BaseStatement::Vote(id, Vote::Accept)
VoteAccept(id) ==
    [kind |-> "VoteAccept", tx |-> <<>>, id |-> id, other |-> NoReference, range |-> NoRange]

\* BaseStatement::Vote(id, Vote::Reject(None))
VoteRejectNone(id) ==
    [kind |-> "VoteRejectNone", tx |-> <<>>, id |-> id, other |-> NoReference, range |-> NoRange]

\* BaseStatement::Vote(id, Vote::Reject(Some(other)))
VoteRejectSome(id, other) ==
    [kind |-> "VoteRejectSome", tx |-> <<>>, id |-> id, other |-> other, range |-> NoRange]

\* BaseStatement::VoteRange(range)
VoteRange(range) ==
    [kind |-> "VoteRange", tx |-> <<>>, id |-> NoReference, other |-> NoReference, range |-> range]

(***************************************************************************)
(* BlockDigest::digest_without_signature (crypto.rs:114-155)               *)
(***************************************************************************)
\* a slip in the arms of the match: the two Reject arms exchange their bytes
HashStatementSwapped(s, state) ==
    CASE s.kind = "Share" ->
            CryptoHashTransaction(s.tx, CryptoHashBytes(<<0>>, state))
      [] s.kind = "VoteAccept" ->
            CryptoHashReference(s.id, CryptoHashBytes(<<1>>, state))
      [] s.kind = "VoteRejectNone" ->
            CryptoHashReference(s.id, CryptoHashBytes(<<3>>, state))
      [] s.kind = "VoteRejectSome" ->
            CryptoHashReference(s.other,
                CryptoHashReference(s.id, CryptoHashBytes(<<2>>, state)))
      [] s.kind = "VoteRange" ->
            CryptoHashRange(s.range, CryptoHashBytes(<<4>>, state))

\* the body of `for statement in statements`: one arm per variant
HashStatement(s, state) ==
    CASE s.kind = "Share" ->
            CryptoHashTransaction(s.tx, CryptoHashBytes(<<0>>, state))
      [] s.kind = "VoteAccept" ->
            CryptoHashReference(s.id, CryptoHashBytes(<<1>>, state))
      [] s.kind = "VoteRejectNone" ->
            CryptoHashReference(s.id, CryptoHashBytes(<<2>>, state))
      [] s.kind = "VoteRejectSome" ->
            CryptoHashReference(s.other,
                CryptoHashReference(s.id, CryptoHashBytes(<<3>>, state)))
      [] s.kind = "VoteRange" ->
            CryptoHashRange(s.range, CryptoHashBytes(<<4>>, state))

RECURSIVE HashIncludes(_, _)
\* for include in includes { include.crypto_hash(hasher) }
HashIncludes(includes, state) ==
    IF includes = <<>> THEN state
    ELSE HashIncludes(Tail(includes), CryptoHashReference(Head(includes), state))

RECURSIVE HashStatements(_, _)
\* for statement in statements { match statement ... }
HashStatements(statements, state) ==
    IF statements = <<>> THEN state
    ELSE HashStatements(Tail(statements), HashStatement(Head(statements), state))

digest_without_signature(hasher, authority, round, includes, statements, meta_creation_time_ns, epoch_marker) ==
    LET h1 == CryptoHashU64(authority, hasher)
        h2 == CryptoHashU64(round, h1)
        h3 == HashIncludes(includes, h2)
        h4 == HashStatements(statements, h3)
        h5 == CryptoHashU128(meta_creation_time_ns, h4)
    IN  CryptoHashEpoch(epoch_marker, h5)

\* BlockHasher::default()
NewHasher == <<>>

\* hasher.finalize(): the collision-free hash, equal exactly when the input is
Finalize(hasher) == hasher

\* the content digest of a block's signed fields, as sign_block and
\* verify_block compute it
ContentDigest(b) ==
    Finalize(digest_without_signature(NewHasher, b.author, b.round, b.includes,
                                      b.statements, b.meta_creation_time_ns,
                                      b.epoch_marker))

(***************************************************************************)
(* BlockDigest::new (crypto.rs:70-91)                                      *)
(***************************************************************************)
\* a slip: the signature is not fed
BlockDigestNewUnsigned(authority, round, includes, statements, meta_creation_time_ns, epoch_marker, signature) ==
    Finalize(digest_without_signature(NewHasher, authority, round, includes, statements,
                                      meta_creation_time_ns, epoch_marker))

BlockDigestNew(authority, round, includes, statements, meta_creation_time_ns, epoch_marker, signature) ==
    LET hasher == digest_without_signature(NewHasher, authority, round, includes,
                                           statements, meta_creation_time_ns, epoch_marker)
    IN  Finalize(Update(hasher, signature))

(***************************************************************************)
(* mldsa44 (the external signature scheme, ideal)                          *)
(***************************************************************************)
\* SignatureBytes::default(): [0u8; SIGNATURE_SIZE]
ZeroSignature == Fill(0, SIGNATURE_SIZE)

\* mldsa44::detached_sign(msg, sk): SIGNATURE_SIZE bytes, a different string
\* for every (sk, msg): the key number, the length of msg on two bytes, msg,
\* zeros
detached_sign(msg, sk) ==
    <<sk, Len(msg) \div 256, Len(msg) % 256>> \o msg \o SubSeq(ZeroSignature, 1, SIGNATURE_SIZE - 3 - Len(msg))

\* mldsa44::DetachedSignature::from_bytes: accepts exactly SIGNATURE_SIZE bytes
DetachedSignatureFromBytesOk(bytes) == Len(bytes) = SIGNATURE_SIZE

\* mldsa44::verify_detached_signature(sig, msg, pk); the secret key matching
\* public key pk has the same number
verify_detached_signature(sig, msg, pk) ==
    IF pk > 0 /\ sig = detached_sign(msg, pk) THEN "Ok" ELSE "InvalidSignature"

(***************************************************************************)
(* PublicKey::verify_block (crypto.rs:201-224)                             *)
(***************************************************************************)
\* mldsa44::PublicKey::from_bytes(as_bytes(pk)): the bytes of a public key
\* always have the length of one
PublicKeyFromBytesOk(pk) == TRUE

\* a slip: the digest checked is the identity digest, signature included
verify_block_identity(self, block) ==
    IF ~DetachedSignatureFromBytesOk(block.signature) THEN "UnknownVerificationError"
    ELSE LET digest == BlockDigestNew(block.author, block.round, block.includes, block.statements, block.meta_creation_time_ns, block.epoch_marker, block.signature)
         IN  IF ~PublicKeyFromBytesOk(self) THEN "UnknownVerificationError"
             ELSE verify_detached_signature(block.signature, digest, self)

\* a slip: the stored self-digest of the block is fed after the signed fields
verify_block_stored(self, block) ==
    IF ~DetachedSignatureFromBytesOk(block.signature) THEN "UnknownVerificationError"
    ELSE LET hasher == digest_without_signature(NewHasher, block.author, block.round, block.includes, block.statements, block.meta_creation_time_ns, block.epoch_marker)
             digest == Finalize(Update(hasher, block.digest))
         IN  IF ~PublicKeyFromBytesOk(self) THEN "UnknownVerificationError"
             ELSE verify_detached_signature(block.signature, digest, self)

\* the value verify_block returns: "Ok" for Ok(()), else the VerificationError
verify_block(self, block) ==
    IF ~DetachedSignatureFromBytesOk(block.signature) THEN "UnknownVerificationError"
    ELSE LET hasher == digest_without_signature(NewHasher, block.author, block.round, block.includes, block.statements, block.meta_creation_time_ns, block.epoch_marker)
             digest == Finalize(hasher)
         IN  IF ~PublicKeyFromBytesOk(self) THEN "UnknownVerificationError"
             ELSE verify_detached_signature(block.signature, digest, self)

\* A line written to standard output or into a file: its text, the number of the
\* public key and of the secret key whose bytes are formatted into it (0: none)
\* and whether signature bytes are.
Line(text, public_key, secret_key, signature) ==
    [text |-> text, public_key |-> public_key, secret_key |-> secret_key, signature |-> signature]

\* println!("Public Key on Verification: ..\nSignature on Verification: ..")
verify_block_println(self, block) ==
    Line("Public Key on Verification / Signature on Verification", self, 0, TRUE)

(***************************************************************************)
(* Signer (crypto.rs:238-303, 341-351, 410-414)                            *)
(***************************************************************************)
\* println!("Public Key on Generation: ..")
new_println(public_key_local) == Line("Public Key on Generation", public_key_local, 0, FALSE)

\* a slip: the assert! is gone and whatever was signed is returned
SelfCheckSkipped(signature, digest, public_key) == TRUE

\* the condition of the assert! of line 281
SelfCheck(signature, digest, public_key) ==
    /\ DetachedSignatureFromBytesOk(signature)
    /\ verify_detached_signature(signature, digest, public_key) = "Ok"

\* a slip: the line of the assert! left in a comment at line 280, which
\* formats the private key, is the one printed
sign_block_println_secret(public_key, secret_key) ==
    Line("Public Key / Private Key / Signature", public_key, secret_key, TRUE)

\* println!("Public Key on Signing: ..\nDetached Signature at Signing: ..\n
\* Signature Bytes at Signing: ..") (the last two are the same bytes)
sign_block_println(public_key, secret_key) ==
    Line("Public Key on Signing / Detached Signature at Signing / Signature Bytes at Signing", public_key, 0, TRUE)

\* impl Debug / Display for Signer: "Signer(public_key={:?})" with the Debug
\* of PublicKey, which writes the word PublicKey and no byte of the key
SignerFmt(public_key, secret_key) == Line("Signer(public_key=PublicKey)", 0, 0, FALSE)

\* #[derive(Serialize)] of Signer(Box<SecretKeyLocal>, PublicKey): both fields,
\* in order
SignerSerialize(public_key, secret_key) ==
    Line("keypair: [secret key, public key]", public_key, secret_key, FALSE)

(***************************************************************************)
(* Inputs                                                                  *)
(***************************************************************************)
RefA == [authority |-> 0, round |-> 6, digest |-> ZeroDigest]

RefB == [authority |-> 1, round |-> 6, digest |-> Fill(171, BLOCK_DIGEST_SIZE)]

RangeA == [block |-> RefA, offset_start_inclusive |-> 0, offset_end_exclusive |-> 5]

\* "abc"
TxAbc == <<97, 98, 99>>

TxA == <<97>>

TxA0A == <<97, 0, 97>>

Authorities == {0, 3}

Rounds == {7, 8}

IncludeLists == {<<>>, <<RefA>>, <<RefB>>}

StatementLists ==
    { <<Share(TxAbc)>>,
      <<Share(TxA), Share(TxA)>>,
      <<Share(TxA0A)>>,
      <<VoteAccept(RefA), VoteRejectNone(RefB), VoteRejectSome(RefA, RefB), VoteRange(RangeA)>> }

Times == {1000, 1001}

\* EpochStatus: FALSE is "unchanged"
Epochs == BOOLEAN

\* the byte positions at which a signature gets a bit flipped
FlipPositions == {1, SIGNATURE_SIZE}

(***************************************************************************)
(* State                                                                   *)
(***************************************************************************)
VARIABLES
    signer,       \* the Signer: status, its PublicKey field, the scope that owns it
    mem,          \* secret key bytes held by: box (the Box<SecretKeyLocal> allocation),
                  \* keypair (the local of Signer::new), content (the String of load/print)
    pubkey,       \* the last value public_key() returned (0: not called)
    stdout,       \* the lines printed so far
    formatted,    \* the last Debug / Display output of the Signer
    file,         \* the configuration file written by print
    stage,        \* none, signed, panicked, verified, identified
    block,        \* the block produced with the signature sign_block returned
    recv,         \* the copy of the block that reaches a verifier (a block holds its
                  \* signed fields, its signature and, as digest, its stored self-digest)
    altered,      \* the fields of recv that were altered after signing
    result,       \* what verify_block returned for recv
    idBlock,      \* BlockDigest::new of block
    idRecv,       \* BlockDigest::new of recv
    slice,        \* the bytes handed to try_copy_from_slice
    target,       \* the type decoded into: SignatureBytes, BlockDigest
    decoded,      \* what try_copy_from_slice returned
    wire,         \* the serialized bytes of the decoded value
    drawn,        \* the key pairs mldsa44::keypair() has returned so far
    generated,    \* the last call of Signer::new_for_test: its n and the Vec<Signer> returned
    publicConfig, \* the NodePublicConfig of the committee
    privateConfigs \* the NodePrivateConfig of each authority, in the order of the index

vars == <<signer, mem, pubkey, stdout, formatted, file, stage, block, recv, altered, result, idBlock, idRecv, slice, target, decoded, wire, drawn, generated, publicConfig, privateConfigs>>

signerVars == <<signer, mem, pubkey, formatted, file>>

blockVars == <<stage, block, recv, altered, result, idBlock, idRecv>>

codecVars == <<slice, target, decoded, wire>>

committeeVars == <<drawn, generated, publicConfig, privateConfigs>>

NoLine == Line("", 0, 0, FALSE)

NoBlock == [author |-> 0, round |-> 0, includes |-> <<>>, statements |-> <<>>, meta_creation_time_ns |-> 0, epoch_marker |-> FALSE, signature |-> <<>>, digest |-> <<>>]

NoResult == [ok |-> FALSE, error |-> "", len |-> 0, value |-> <<>>]

NoCall == [called |-> FALSE, n |-> 0, signers |-> <<>>]

NoPublicConfig == [by |-> "", identifiers |-> <<>>]

NoPrivateConfigs == [by |-> "", configs |-> <<>>]

Init ==
    /\ signer = [status |-> "none", public_key |-> 0, scope |-> 0]
    /\ mem = [box |-> 0, keypair |-> 0, content |-> 0]
    /\ pubkey = 0
    /\ stdout = <<>>
    /\ formatted = [by |-> "", out |-> NoLine]
    /\ file = NoLine
    /\ stage = "none"
    /\ block = NoBlock
    /\ recv = NoBlock
    /\ altered = {}
    /\ result = ""
    /\ idBlock = <<>>
    /\ idRecv = <<>>
    /\ slice = <<>>
    /\ target = ""
    /\ decoded = NoResult
    /\ wire = <<>>
    /\ drawn = {}
    /\ generated = NoCall
    /\ publicConfig = NoPublicConfig
    /\ privateConfigs = NoPrivateConfigs

(***************************************************************************)
(* Signer::new (crypto.rs:239-249)                                         *)
(***************************************************************************)
\* mldsa44::keypair() returns key pair k into the local `keypair`; the secret
\* half is copied into a fresh Box (SecretKey is Copy: the local keeps its
\* bytes, and nothing overwrites them when the frame is left).
SignerNew(k) ==
    /\ signer.status = "none"
    /\ mem' = [mem EXCEPT !.keypair = k, !.box = k]
    /\ stdout' = Append(stdout, new_println(k))
    /\ signer' = [status |-> "live", public_key |-> k, scope |-> 0]
    /\ UNCHANGED <<pubkey, formatted, file, blockVars, codecVars, committeeVars>>

(***************************************************************************)
(* Signer::sign_block (crypto.rs:257-285)                                  *)
(***************************************************************************)
SignBlock(authority, round, includes, statements, meta_creation_time_ns, epoch_marker) ==
    /\ signer.status = "live"
    /\ stage = "none"
    /\ LET hasher == digest_without_signature(NewHasher, authority, round, includes, statements, meta_creation_time_ns, epoch_marker)
           digest == Finalize(hasher)
           s_bytes == detached_sign(digest, mem.box)
           passed == SelfCheck(s_bytes, digest, signer.public_key)
           produced == [author |-> authority, round |-> round, includes |-> includes, statements |-> statements, meta_creation_time_ns |-> meta_creation_time_ns, epoch_marker |-> epoch_marker, signature |-> s_bytes, digest |-> BlockDigestNew(authority, round, includes, statements, meta_creation_time_ns, epoch_marker, s_bytes)]
       IN  /\ stage' = IF passed THEN "signed" ELSE "panicked"
           /\ block' = IF passed THEN produced ELSE block
           /\ recv' = IF passed THEN produced ELSE recv
           /\ stdout' = IF passed THEN Append(stdout, sign_block_println(signer.public_key, mem.box)) ELSE stdout
    /\ UNCHANGED <<signerVars, altered, result, idBlock, idRecv, codecVars, committeeVars>>

(***************************************************************************)
(* Alterations of the block on its way to the verifier                     *)
(***************************************************************************)
\* At most one signed field is altered, and the signature may be as well.
SignedFields == {"author", "round", "includes", "statements", "meta_creation_time_ns", "epoch_marker"}

CanTamper(field) ==
    /\ stage = "signed"
    /\ field \notin altered
    /\ field \in SignedFields => altered \cap SignedFields = {}

Tampered(field, b) ==
    /\ CanTamper(field)
    /\ b # recv
    /\ recv' = b
    /\ altered' = altered \cup {field}
    /\ UNCHANGED <<signerVars, stdout, stage, block, result, idBlock, idRecv, codecVars, committeeVars>>

TamperAuthor(v) == Tampered("author", [recv EXCEPT !.author = v])

TamperRound(v) == Tampered("round", [recv EXCEPT !.round = v])

TamperIncludes(v) == Tampered("includes", [recv EXCEPT !.includes = v])

TamperStatements(v) == Tampered("statements", [recv EXCEPT !.statements = v])

TamperTime(v) == Tampered("meta_creation_time_ns", [recv EXCEPT !.meta_creation_time_ns = v])

TamperEpoch(v) == Tampered("epoch_marker", [recv EXCEPT !.epoch_marker = v])

\* one bit of byte i flipped
FlipBit(bytes, i) == [bytes EXCEPT ![i] = IF @ % 2 = 0 THEN @ + 1 ELSE @ - 1]

TamperSignature(i) == Tampered("signature", [recv EXCEPT !.signature = FlipBit(@, i)])

\* the stored self-digest (reference.digest) of the copy is replaced
TamperDigest(v) == Tampered("digest", [recv EXCEPT !.digest = v])

(***************************************************************************)
(* signer.public_key().verify_block(&recv) (crypto.rs:201-224, 300-302)    *)
(***************************************************************************)
VerifyBlock ==
    /\ stage = "signed"
    /\ result' = verify_block(signer.public_key, recv)
    /\ stdout' = Append(stdout, verify_block_println(signer.public_key, recv))
    /\ stage' = "verified"
    /\ UNCHANGED <<signerVars, block, recv, altered, idBlock, idRecv, codecVars, committeeVars>>

(***************************************************************************)
(* BlockDigest::new of both copies (crypto.rs:70-91)                       *)
(***************************************************************************)
DigestOf(b) ==
    BlockDigestNew(b.author, b.round, b.includes, b.statements, b.meta_creation_time_ns, b.epoch_marker, b.signature)

DigestBlocks ==
    /\ stage = "verified"
    /\ idBlock' = DigestOf(block)
    /\ idRecv' = DigestOf(recv)
    /\ stage' = "identified"
    /\ UNCHANGED <<signerVars, stdout, block, recv, altered, result, codecVars, committeeVars>>

Next ==
    \/ \E k \in Keys : SignerNew(k)
    \/ \E a \in Authorities, r \in Rounds, i \in IncludeLists, s \in StatementLists, t \in Times, e \in Epochs : SignBlock(a, r, i, s, t, e)
    \/ \E v \in Authorities : TamperAuthor(v)
    \/ \E v \in Rounds : TamperRound(v)
    \/ \E v \in IncludeLists : TamperIncludes(v)
    \/ \E v \in StatementLists : TamperStatements(v)
    \/ \E v \in Times : TamperTime(v)
    \/ \E v \in Epochs : TamperEpoch(v)
    \/ \E i \in FlipPositions : TamperSignature(i)
    \/ VerifyBlock
    \/ DigestBlocks

Spec == Init /\ [][Next]_vars

(***************************************************************************)
(* Properties of signing, verification and the two digests (under Spec)    *)
(***************************************************************************)
\* the six signed fields of a block, as logical values
Fields(b) == <<b.author, b.round, b.includes, b.statements, b.meta_creation_time_ns, b.epoch_marker>>

Verified == stage \in {"verified", "identified"}

\* the failures verify_block can report
VerificationFailures == {"InvalidSignature", "UnknownVerificationError"}

\* C1: a block that carries the fields handed to sign_block and the signature
\* sign_block returned for them verifies under the public key of the Signer
\* (made by Signer::new) that signed it.
C1_RoundTrip ==
    (Verified /\ altered = {}) =>
        /\ recv = block
        /\ result = "Ok"

\* the scenario of the specification: author 3, round 7, no includes,
\* Share("abc"), creation time 1000, epoch unchanged, signed and then verified
C1_Witness ==
    /\ Verified
    /\ altered = {}
    /\ Fields(recv) = <<3, 7, <<>>, <<Share(TxAbc)>>, 1000, FALSE>>
    /\ recv.signature = detached_sign(ContentDigest(recv), mem.box)
    /\ result = "Ok"

\* C2: once one signed field of a signed block has been altered to a different
\* value, or its signature bytes have been, verify_block under the signer's
\* public key reports a verification failure.
C2_TamperDetected ==
    (Verified /\ Cardinality(altered) = 1) => result \in VerificationFailures

\* C3: two field tuples that differ as logical values are fed to the hasher as
\* different byte strings.
C3_Injective ==
    (Verified /\ Fields(block) # Fields(recv)) =>
        digest_without_signature(NewHasher, block.author, block.round, block.includes, block.statements, block.meta_creation_time_ns, block.epoch_marker)
            # digest_without_signature(NewHasher, recv.author, recv.round, recv.includes, recv.statements, recv.meta_creation_time_ns, recv.epoch_marker)

\* C4: two blocks whose BlockDigest::new inputs are the same byte string carry
\* the same signature bytes, whatever their other fields; so two blocks that
\* differ in their signature bytes have different identity digests.
C4_DigestFixesSignature ==
    (stage = "identified" /\ idBlock = idRecv) => block.signature = recv.signature

\* two copies that differ only in one bit of the signature, digests computed
C4_Witness ==
    /\ stage = "identified"
    /\ altered = {"signature"}
    /\ Fields(block) = Fields(recv)
    /\ block.signature # recv.signature
    /\ idBlock # idRecv

\* C9: a call of verify_block writes nothing and changes no state but the
\* caller's result.
C9_VerifyPure ==
    [][(stage = "signed" /\ stage' = "verified") => UNCHANGED <<signer, mem, pubkey, stdout, formatted, file, block, recv>>]_vars

\* the bytes of a reference: authority and round big-endian on 8 bytes, then
\* the 32 bytes of the digest
ReferenceBytes(r) == to_be_bytes(r.authority, 8) \o to_be_bytes(r.round, 8) \o r.digest

\* what section 4.1 lays down for one statement: the discriminant byte, then
\* the payload fields in declared order
StatementBytes(s) ==
    CASE s.kind = "Share" -> <<0>> \o s.tx
      [] s.kind = "VoteAccept" -> <<1>> \o ReferenceBytes(s.id)
      [] s.kind = "VoteRejectNone" -> <<2>> \o ReferenceBytes(s.id)
      [] s.kind = "VoteRejectSome" -> <<3>> \o ReferenceBytes(s.id) \o ReferenceBytes(s.other)
      [] s.kind = "VoteRange" -> <<4>> \o ReferenceBytes(s.range.block) \o to_be_bytes(s.range.offset_start_inclusive, 8) \o to_be_bytes(s.range.offset_end_exclusive, 8)

RECURSIVE IncludesBytes(_)
\* the bytes of the includes, one reference after the other
IncludesBytes(includes) ==
    IF includes = <<>> THEN <<>> ELSE ReferenceBytes(Head(includes)) \o IncludesBytes(Tail(includes))

RECURSIVE StatementsBytes(_)
\* the bytes of the statements, one statement after the other
StatementsBytes(statements) ==
    IF statements = <<>> THEN <<>> ELSE StatementBytes(Head(statements)) \o StatementsBytes(Tail(statements))

\* the statements of the signed block and of the copy that was verified
HashedStatements ==
    {block.statements[i] : i \in 1..Len(block.statements)} \cup {recv.statements[i] : i \in 1..Len(recv.statements)}

\* the discriminant fed for a statement
Tag(s) == HashStatement(s, NewHasher)[1]

\* the five discriminants
Discriminants == 0..4

\* C10: every statement of a hashed block is fed as its discriminant byte and
\* then its payload (Share 0, Accept 1, Reject without conflict 2, Reject with
\* conflict 3, VoteRange 4), one statement after the other between the
\* includes and the creation time, and two statements have the same
\* discriminant exactly when they are of the same variant.
C10_Discriminants ==
    stage # "none" /\ stage # "panicked" =>
        /\ \A s \in HashedStatements :
              /\ HashStatement(s, NewHasher) = StatementBytes(s)
              /\ Tag(s) \in Discriminants
        /\ \A s, t \in HashedStatements : (Tag(s) = Tag(t)) <=> (s.kind = t.kind)
        /\ ContentDigest(block) =
              to_be_bytes(block.author, 8) \o to_be_bytes(block.round, 8)
                  \o IncludesBytes(block.includes)
                  \o StatementsBytes(block.statements)
                  \o to_be_bytes(block.meta_creation_time_ns, 16)
                  \o (IF block.epoch_marker THEN <<1>> ELSE <<0>>)

\* a signed block with the four kinds of votes
C10_Witness ==
    /\ stage = "signed"
    /\ block.statements = <<VoteAccept(RefA), VoteRejectNone(RefB), VoteRejectSome(RefA, RefB), VoteRange(RangeA)>>
    /\ Tag(block.statements[1]) = 1
    /\ Tag(block.statements[2]) = 2
    /\ Tag(block.statements[3]) = 3
    /\ Tag(block.statements[4]) = 4

(***************************************************************************)
(* The life of a Signer: SpecKey                                           *)
(***************************************************************************)
\* a panic of sign_block ends the thread that owns the Signer: what is left
\* to happen is the unwinding, which drops it
Running == signer.status = "live" /\ stage # "panicked"

\* ImportExport::load of a NodePrivateConfig (config.rs:19-24) through the
\* derived Deserialize of Signer (crypto.rs:62-63): the file's text is read
\* into the String `content`, and the two keys it holds, whether or not they
\* belong together, become the fields of the Signer.
Load(sk, pk) ==
    /\ signer.status = "none"
    /\ mem' = [mem EXCEPT !.content = sk, !.box = sk]
    /\ signer' = [status |-> "live", public_key |-> pk, scope |-> 0]
    /\ UNCHANGED <<pubkey, stdout, formatted, file, blockVars, codecVars, committeeVars>>

\* The Signer is moved to another scope: the pointer of the Box and the public
\* key are copied, the allocation that holds the secret key stays where it is.
Move ==
    /\ Running
    /\ signer' = [signer EXCEPT !.scope = 1 - @]
    /\ UNCHANGED <<mem, pubkey, stdout, formatted, file, blockVars, codecVars, committeeVars>>

\* Signer::public_key (crypto.rs:300-302)
PublicKeyCall ==
    /\ Running
    /\ pubkey' = signer.public_key
    /\ UNCHANGED <<signer, mem, stdout, formatted, file, blockVars, codecVars, committeeVars>>

\* format!("{:?}", signer) (crypto.rs:341-345)
DebugFmt ==
    /\ Running
    /\ formatted' = [by |-> "Debug", out |-> SignerFmt(signer.public_key, mem.box)]
    /\ UNCHANGED <<signer, mem, pubkey, stdout, file, blockVars, codecVars, committeeVars>>

\* format!("{}", signer) (crypto.rs:347-351)
DisplayFmt ==
    /\ Running
    /\ formatted' = [by |-> "Display", out |-> SignerFmt(signer.public_key, mem.box)]
    /\ UNCHANGED <<signer, mem, pubkey, stdout, file, blockVars, codecVars, committeeVars>>

\* ImportExport::print of the NodePrivateConfig that holds the Signer
\* (config.rs:26-30, 203-208, 256): serialized into the String `content`,
\* which is written to the file.
Export ==
    /\ Running
    /\ mem' = [mem EXCEPT !.content = mem.box]
    /\ file' = SignerSerialize(signer.public_key, mem.box)
    /\ UNCHANGED <<signer, pubkey, stdout, formatted, blockVars, codecVars, committeeVars>>

\* impl Drop for Signer (crypto.rs:410-414): self.0.zeroize() writes
\* SecretKeyLocal::default(), the all-zero key, over the content of the Box.
Drop ==
    /\ signer.status = "live"
    /\ mem' = [mem EXCEPT !.box = 0]
    /\ signer' = [signer EXCEPT !.status = "dropped"]
    /\ UNCHANGED <<pubkey, stdout, formatted, file, blockVars, codecVars, committeeVars>>

NextKey ==
    \/ \E k \in Keys : SignerNew(k)
    \/ \E sk \in FileKeys, pk \in FileKeys : Load(sk, pk)
    \/ Move
    \/ \E s \in StatementLists, e \in Epochs : SignBlock(3, 7, <<>>, s, 1000, e)
    \/ PublicKeyCall
    \/ DebugFmt
    \/ DisplayFmt
    \/ Export
    \/ Drop

SpecKey == Init /\ [][NextKey]_vars

\* C5: once a Signer made by Signer::new (and neither loaded nor exported) has
\* been dropped, no memory location holds its secret key bytes any more:
\* not the Box, not the keypair local of Signer::new.
C5_Zeroed ==
    (signer.status = "dropped" /\ mem.content = 0) => (mem.box = 0 /\ mem.keypair = 0)

\* every output of the operations on a Signer
Outputs == {stdout[i] : i \in 1..Len(stdout)} \cup {formatted.out, file}

C7_SelfCheck ==
    /\ stage = "signed" => verify_detached_signature(block.signature, ContentDigest(block), signer.public_key) = "Ok"
    /\ (signer.status = "live" /\ mem.box # signer.public_key) => stage \in {"none", "panicked"}
    /\ stage = "panicked" => (block = NoBlock /\ recv = NoBlock /\ \A i \in 1..Len(stdout) : ~stdout[i].signature)

\* a loaded Signer with the secret key of one pair and the public key of
\* another, whose sign_block panicked
C7_Witness ==
    /\ stage = "panicked"
    /\ signer.status = "live"
    /\ mem.box # signer.public_key
    /\ mem.box \in FileKeys
    /\ signer.public_key \in FileKeys

(***************************************************************************)
(* The fixed-size byte codec: SpecCodec (crypto.rs:305-315, 359-408)       *)
(***************************************************************************)
\* Err(E::custom(format!("{what}: {}", v.len())))
LengthError(what, len) == [ok |-> FALSE, error |-> what, len |-> len, value |-> <<>>]

\* let mut inner = [0u8; size]; inner.copy_from_slice(v); Ok(Self(inner))
Copied(v, size) == [ok |-> TRUE, error |-> "", len |-> 0, value |-> [i \in 1..size |-> v[i]]]

\* a slip: only an input that is too short is refused, a longer one is cut
SignatureBytes_try_copy_from_slice_cut(v) ==
    IF Len(v) < SIGNATURE_SIZE THEN LengthError("Invalid signature length", Len(v))
    ELSE Copied(v, SIGNATURE_SIZE)

\* impl ByteRepr for SignatureBytes (crypto.rs:359-368)
SignatureBytes_try_copy_from_slice(v) ==
    IF Len(v) # SIGNATURE_SIZE THEN LengthError("Invalid signature length", Len(v))
    ELSE Copied(v, SIGNATURE_SIZE)

\* impl ByteRepr for BlockDigest (crypto.rs:383-395)
BlockDigest_try_copy_from_slice(v) ==
    IF Len(v) # BLOCK_DIGEST_SIZE THEN LengthError("Invalid block digest length", Len(v))
    ELSE Copied(v, BLOCK_DIGEST_SIZE)

\* as_ref() / serialize_bytes(&self.0): the bytes of the value
AsRef(value) == value

\* the declared size of a type
SizeOf(type) == IF type = "SignatureBytes" THEN SIGNATURE_SIZE ELSE BLOCK_DIGEST_SIZE

\* input lengths: empty, one byte, and around and beyond the two sizes
SliceLengths ==
    {0, 1, BLOCK_DIGEST_SIZE - 1, BLOCK_DIGEST_SIZE, BLOCK_DIGEST_SIZE + 1, 2 * BLOCK_DIGEST_SIZE,
     SIGNATURE_SIZE - 1, SIGNATURE_SIZE, SIGNATURE_SIZE + 1, 2 * SIGNATURE_SIZE}

\* input contents: the same byte all along, or the positions counted by 1 or by 7
SlicePatterns == {"zero", "one", "high", "count", "stride"}

SliceOf(pattern, n) ==
    [i \in 1..n |-> CASE pattern = "zero" -> 0 [] pattern = "one" -> 1 [] pattern = "high" -> 255 [] pattern = "count" -> i % 256 [] pattern = "stride" -> (7 * i) % 256]

\* A slice of bytes arrives from the wire or from storage.
ReceiveSlice(v) ==
    /\ slice' = v
    /\ target' = ""
    /\ decoded' = NoResult
    /\ wire' = <<>>
    /\ UNCHANGED <<signerVars, stdout, blockVars, committeeVars>>

DecodeSignature ==
    /\ target = ""
    /\ target' = "SignatureBytes"
    /\ decoded' = SignatureBytes_try_copy_from_slice(slice)
    /\ UNCHANGED <<slice, wire, signerVars, stdout, blockVars, committeeVars>>

DecodeDigest ==
    /\ target = ""
    /\ target' = "BlockDigest"
    /\ decoded' = BlockDigest_try_copy_from_slice(slice)
    /\ UNCHANGED <<slice, wire, signerVars, stdout, blockVars, committeeVars>>

\* impl Serialize (crypto.rs:370-375, 397-402): the decoded value is encoded
Encode ==
    /\ decoded.ok
    /\ wire = <<>>
    /\ wire' = AsRef(decoded.value)
    /\ UNCHANGED <<slice, target, decoded, signerVars, stdout, blockVars, committeeVars>>

\* the encoding is decoded again, into the same type, and encoded anew
DecodeEncoded ==
    /\ wire # <<>>
    /\ slice' = wire
    /\ decoded' = IF target = "SignatureBytes" THEN SignatureBytes_try_copy_from_slice(wire) ELSE BlockDigest_try_copy_from_slice(wire)
    /\ wire' = <<>>
    /\ UNCHANGED <<target, signerVars, stdout, blockVars, committeeVars>>

NextCodec ==
    \/ \E p \in SlicePatterns, n \in SliceLengths : ReceiveSlice(SliceOf(p, n))
    \/ DecodeSignature
    \/ DecodeDigest
    \/ Encode
    \/ DecodeEncoded

SpecCodec == Init /\ [][NextCodec]_vars

\* C8: try_copy_from_slice, for SignatureBytes and for BlockDigest, gives a
\* length error exactly when the input is not of the declared size, and
\* otherwise a value whose bytes are the input's; the encoding of a decoded
\* value has the declared size and decodes to that value.
C8_FixedSizeDecode ==
    /\ target # "" =>
          /\ decoded.ok <=> Len(slice) = SizeOf(target)
          /\ decoded.ok => AsRef(decoded.value) = slice
          /\ ~decoded.ok => (decoded.value = <<>> /\ decoded.len = Len(slice) /\ decoded.error # "")
    /\ wire # <<>> => (Len(wire) = SizeOf(target) /\ wire = slice)

\* the encoding of a signature of counted bytes, decoded again
C8_Witness ==
    /\ target = "SignatureBytes"
    /\ decoded.ok
    /\ Len(slice) = SIGNATURE_SIZE
    /\ slice[300] = 44
    /\ decoded.value = slice
    /\ wire = <<>>

(***************************************************************************)
(* Key generation for tests: SpecKeygen (crypto.rs:239-254)                *)
(***************************************************************************)
\* Number of key pairs mldsa44::keypair() can return before the pool of the
\* model is used up.
MaxPool == 5

KeyPool == 1..MaxPool

\* mldsa44::keypair() takes its randomness from the operating system: a call
\* returns a pair no earlier call has returned.  The outcomes of n calls in a
\* row, when the pairs of `used` have been returned before.
Draws(n, used) ==
    {d \in [1..n -> KeyPool \ used] : \A i, j \in 1..n : i # j => d[i] # d[j]}

\* the Signer that Signer::new makes of the pair keypair() returned: the
\* secret half into the Box, the public half beside it
NewSigner(keypair) == [secret_key |-> keypair, public_key |-> keypair]

\* a slip: one pair is generated and every Signer is made of it (as with a
\* generator seeded anew for each Signer)
new_for_test_seeded(keypairs) ==
    [i \in 1..Len(keypairs) |-> NewSigner(keypairs[1])]

\* (0..n).map(|_| Signer::new()).collect(), the i-th call of keypair() having
\* returned keypairs[i]
new_for_test(keypairs) ==
    [i \in 1..Len(keypairs) |-> NewSigner(keypairs[i])]

\* the lines the n calls of Signer::new print
new_for_test_println(keypairs) ==
    [i \in 1..Len(keypairs) |-> new_println(keypairs[i])]

\* Signer::new_for_test(n), called by a test
NewForTest(n) ==
    /\ \E keypairs \in Draws(n, drawn) :
          /\ generated' = [called |-> TRUE, n |-> n, signers |-> new_for_test(keypairs)]
          /\ drawn' = drawn \cup {keypairs[i] : i \in 1..n}
          /\ stdout' = stdout \o new_for_test_println(keypairs)
    /\ UNCHANGED <<signerVars, blockVars, codecVars, publicConfig, privateConfigs>>

NextKeygen == \E n \in 0..MaxPool : NewForTest(n)

SpecKeygen == Init /\ [][NextKeygen]_vars

\* the public keys of the Signers of the last call
GeneratedKeys == {generated.signers[i].public_key : i \in 1..Len(generated.signers)}

\* C11: Signer::new_for_test(n) returns exactly n Signers, each of them what
\* Signer::new makes of a key pair of the key generation (and announced on
\* standard output as Signer::new announces it), and no two of them have the
\* same public key.
C11_GenerateForTest ==
    generated.called =>
        /\ Len(generated.signers) = generated.n
        /\ \A i \in 1..generated.n :
              /\ generated.signers[i].public_key \in drawn
              /\ generated.signers[i] = NewSigner(generated.signers[i].public_key)
              /\ stdout[Len(stdout) - generated.n + i] = new_println(generated.signers[i].public_key)
        /\ \A i, j \in 1..generated.n :
              i # j => generated.signers[i].public_key # generated.signers[j].public_key
        /\ Cardinality(GeneratedKeys) = generated.n

\* the scenario of the specification: generate_for_test(5) has returned 5
\* Signers with 5 different public keys
C11_Witness ==
    /\ generated.called
    /\ generated.n = 5
    /\ Len(generated.signers) = 5
    /\ Cardinality(GeneratedKeys) = 5

(***************************************************************************)
(* The feed sequence and the stored self-digest: SpecFeed                  *)
(* (crypto.rs:70-91, 114-155, 201-224, 257-285)                            *)
(***************************************************************************)
\* the values put in the place of a stored self-digest: BlockDigest::default()
\* and another 32 bytes
StoredDigests == {ZeroDigest, Fill(171, BLOCK_DIGEST_SIZE)}

NextFeed ==
    \/ \E k \in Keys : SignerNew(k)
    \/ \E i \in IncludeLists, s \in StatementLists, e \in Epochs : SignBlock(3, 7, i, s, 1000, e)
    \/ \E v \in StoredDigests : TamperDigest(v)
    \/ \E i \in FlipPositions : TamperSignature(i)
    \/ VerifyBlock
    \/ DigestBlocks

SpecFeed == Init /\ [][NextFeed]_vars

\* the bytes of the six signed fields in the order author, round, includes,
\* statements, creation time, epoch marker
FeedSequence(b) ==
    to_be_bytes(b.author, 8) \o to_be_bytes(b.round, 8)
        \o IncludesBytes(b.includes)
        \o StatementsBytes(b.statements)
        \o to_be_bytes(b.meta_creation_time_ns, 16)
        \o (IF b.epoch_marker THEN <<1>> ELSE <<0>>)

\* C12: sign_block signs, verify_block checks and BlockDigest::new hashes the
\* one feed sequence author, round, includes, statements, creation time, epoch
\* marker, BlockDigest::new with the raw signature bytes after it; the content
\* digest of a copy whose signature or stored self-digest was altered is the
\* one that was signed, and verify_block returns for a copy the value it
\* returns for the same copy with the original stored self-digest (Ok when
\* nothing else was altered).
C12_SharedFeed ==
    /\ stage \in {"signed", "verified", "identified"} =>
          /\ block.signature = detached_sign(FeedSequence(block), mem.box)
          /\ block.digest = FeedSequence(block) \o block.signature
          /\ altered \subseteq {"signature", "digest"} => ContentDigest(recv) = FeedSequence(block)
    /\ Verified =>
          /\ result = verify_detached_signature(recv.signature, FeedSequence(recv), signer.public_key)
          /\ result = verify_block(signer.public_key, [recv EXCEPT !.digest = block.digest])
          /\ altered \subseteq {"digest"} => result = "Ok"
    /\ stage = "identified" =>
          /\ idBlock = block.digest
          /\ idRecv = FeedSequence(recv) \o recv.signature

\* a copy whose stored self-digest alone was replaced, by the all-zero digest,
\* and which verified
C12_Witness ==
    /\ Verified
    /\ altered = {"digest"}
    /\ recv.digest = ZeroDigest
    /\ block.digest # ZeroDigest
    /\ Fields(recv) = Fields(block)
    /\ recv.signature = block.signature
    /\ result = "Ok"

(***************************************************************************)
(* The committee of the tests and benchmarks: SpecCommittee                *)
(* (config.rs:118-158, 203-233)                                            *)
(***************************************************************************)
\* The largest committee built.
MaxCommittee == 2

CommitteeSizes == 1..MaxCommittee

\* config.rs:126
PORT_OFFSET_FOR_TESTS == 1500

\* The body of NodePublicConfig::new_for_tests once Signer::new_for_test has
\* returned keys: one NodeIdentifier per key, in order (i counts from 0 in the
\* code, from 1 here); benchmark_port_offset is the size of the committee.
NodePublicConfig_new_for_tests(keys) ==
    [i \in 1..Len(keys) |->
        [public_key |-> keys[i].public_key,
         network_port |-> PORT_OFFSET_FOR_TESTS + (i - 1),
         metrics_port |-> Len(keys) + PORT_OFFSET_FOR_TESTS + (i - 1)]]

\* The closure of NodePrivateConfig::new_for_benchmarks over the enumerated
\* Vec<Signer>: authority i holds the i-th Signer.
NodePrivateConfig_new_for_benchmarks(keys) ==
    [i \in 1..Len(keys) |-> [authority |-> i - 1, keypair |-> keys[i]]]

\* NodePublicConfig::new_for_tests(committee_size), or new_for_benchmarks(ips,
\* ..) with committee_size addresses, which calls it with ips.len() and then
\* only sets the addresses and the parameters.
PublicNew(by, committee_size) ==
    /\ publicConfig = NoPublicConfig
    /\ \E keypairs \in Draws(committee_size, drawn) :
          LET keys == new_for_test(keypairs)
          IN  /\ generated' = [called |-> TRUE, n |-> committee_size, signers |-> keys]
              /\ drawn' = drawn \cup {keypairs[i] : i \in 1..committee_size}
              /\ stdout' = stdout \o new_for_test_println(keypairs)
              /\ publicConfig' = [by |-> by, identifiers |-> NodePublicConfig_new_for_tests(keys)]
    /\ UNCHANGED <<signerVars, blockVars, codecVars, privateConfigs>>

PublicNewForTests(committee_size) == PublicNew("new_for_tests", committee_size)

PublicNewForBenchmarks(committee_size) == PublicNew("new_for_benchmarks", committee_size)

\* NodePrivateConfig::new_for_benchmarks(working_dir, committee_size)
PrivateNewForBenchmarks(committee_size) ==
    /\ privateConfigs = NoPrivateConfigs
    /\ \E keypairs \in Draws(committee_size, drawn) :
          LET keys == new_for_test(keypairs)
          IN  /\ generated' = [called |-> TRUE, n |-> committee_size, signers |-> keys]
              /\ drawn' = drawn \cup {keypairs[i] : i \in 1..committee_size}
              /\ stdout' = stdout \o new_for_test_println(keypairs)
              /\ privateConfigs' = [by |-> "new_for_benchmarks", configs |-> NodePrivateConfig_new_for_benchmarks(keys)]
    /\ UNCHANGED <<signerVars, blockVars, codecVars, publicConfig>>

\* NodePrivateConfig::new_for_tests(index), for the authorities in the order
\* of their index: the keypair is dummy_signer(), which is Signer::new().
PrivateNewForTests(index) ==
    /\ privateConfigs.by \in {"", "new_for_tests"}
    /\ index = Len(privateConfigs.configs)
    /\ \E keypairs \in Draws(1, drawn) :
          /\ drawn' = drawn \cup {keypairs[1]}
          /\ stdout' = Append(stdout, new_println(keypairs[1]))
          /\ privateConfigs' = [by |-> "new_for_tests", configs |-> Append(privateConfigs.configs, [authority |-> index, keypair |-> NewSigner(keypairs[1])])]
    /\ UNCHANGED <<signerVars, blockVars, codecVars, generated, publicConfig>>

\* the public and the private configurations describe a committee of one size
Committee ==
    /\ publicConfig # NoPublicConfig
    /\ privateConfigs # NoPrivateConfigs
    /\ Len(publicConfig.identifiers) = Len(privateConfigs.configs)

\* The authority `authority` of the committee signs a block with the Signer of
\* its private configuration (Signer::sign_block, crypto.rs:257-285).
CommitteeSign(authority, epoch_marker) ==
    /\ Committee
    /\ stage = "none"
    /\ authority < Len(privateConfigs.configs)
    /\ LET keypair == privateConfigs.configs[authority + 1].keypair
           hasher == digest_without_signature(NewHasher, authority, 7, <<>>, <<Share(TxAbc)>>, 1000, epoch_marker)
           digest == Finalize(hasher)
           s_bytes == detached_sign(digest, keypair.secret_key)
           passed == SelfCheck(s_bytes, digest, keypair.public_key)
           produced == [author |-> authority, round |-> 7, includes |-> <<>>, statements |-> <<Share(TxAbc)>>, meta_creation_time_ns |-> 1000, epoch_marker |-> epoch_marker, signature |-> s_bytes, digest |-> BlockDigestNew(authority, 7, <<>>, <<Share(TxAbc)>>, 1000, epoch_marker, s_bytes)]
       IN  /\ stage' = IF passed THEN "signed" ELSE "panicked"
           /\ block' = IF passed THEN produced ELSE block
           /\ recv' = IF passed THEN produced ELSE recv
           /\ stdout' = IF passed THEN Append(stdout, sign_block_println(keypair.public_key, keypair.secret_key)) ELSE stdout
    /\ UNCHANGED <<signerVars, altered, result, idBlock, idRecv, codecVars, committeeVars>>

\* A member of the committee verifies the block under the public key the
\* public configuration holds for its author.
CommitteeVerify ==
    /\ stage = "signed"
    /\ LET public_key == publicConfig.identifiers[recv.author + 1].public_key
       IN  /\ result' = verify_block(public_key, recv)
           /\ stdout' = Append(stdout, verify_block_println(public_key, recv))
    /\ stage' = "verified"
    /\ UNCHANGED <<signerVars, block, recv, altered, idBlock, idRecv, codecVars, committeeVars>>

NextCommittee ==
    \/ \E n \in CommitteeSizes : PublicNewForTests(n)
    \/ \E n \in CommitteeSizes : PublicNewForBenchmarks(n)
    \/ \E n \in CommitteeSizes : PrivateNewForBenchmarks(n)
    \/ \E index \in 0..(MaxCommittee - 1) : PrivateNewForTests(index)
    \/ \E authority \in 0..(MaxCommittee - 1), e \in Epochs : CommitteeSign(authority, e)
    \/ CommitteeVerify

SpecCommittee == Init /\ [][NextCommittee]_vars

\* C13: in a committee built by the constructors of the public and of the
\* private configuration, the public key at identifiers[i] is the public key
\* of the Signer of authority i's private configuration, and a block signed
\* by authority i's Signer verifies under the public key of identifiers[i].
C13_CommitteeKeys ==
    Committee =>
        /\ \A i \in 1..Len(privateConfigs.configs) :
              publicConfig.identifiers[i].public_key = privateConfigs.configs[i].keypair.public_key
        /\ stage = "verified" => result = "Ok"

====
